---- MODULE Spec2Model ----
(***************************************************************************)
(* Model of the pitch-deck generator: the CSV unit extraction of           *)
(* csv_parser.py (extract_units_from_csv) and the column planning of       *)
(* main.py (create_pitch_deck).                                            *)
(*                                                                         *)
(* Text is a sequence of one-character strings.  Characters that are not   *)
(* plain ASCII are written as tokens: "EUR" is the euro sign, "SUP2" the   *)
(* superscript two, "AR3" the Arabic-Indic digit three.  None (the value   *)
(* csv.DictReader gives to the fields a short row does not have) is the    *)
(* one-element sequence <<"None_">>, which no text can equal.              *)
(*                                                                         *)
(* Numbers handled by float() are exact rationals <<n, d>> with d > 0;     *)
(* binary64 rounding error is not modelled.                                *)
(***************************************************************************)
EXTENDS Integers, Sequences, FiniteSets, TLC

VARIABLES
    csv_exists,       \* os.path.exists(csv_path)
    fieldnames,       \* reader.fieldnames, the header line of the file
    rows,             \* the data lines of the file, each a sequence of cells
    pc,               \* position in extract_units_from_csv
    row_idx,          \* number of rows the loop has consumed
    available_units,  \* the list built by the loop
    result,           \* the value returned to the caller
    raised,           \* the exception that escaped to the caller, or "none"
    lpc,              \* position in the table set-up of create_pitch_deck
    page_width,       \* width, as returned by initialize_pdf_layout
    table_width,      \* table_width
    nominal,          \* col_widths as written in the source, in key order
    col_widths,       \* col_widths, as the code leaves it
    cols2,            \* cols, in half points (twice the position)
    current_pos2,     \* current_pos, in half points
    cpc,              \* position in draw_centered_text
    cell_x2,          \* x, the left edge of the cell, in half points
    cell_width,       \* width, the width of the cell
    text_width2,      \* c.stringWidth(text, ...), in half points
    y_top10,          \* y_top, in tenths of a point
    y_bottom10,       \* y_bottom, in tenths of a point
    centered_x4,      \* centered_x, in quarter points
    centered_y20,     \* centered_y, in twentieths of a point
    dpc,              \* position in create_pitch_deck
    request,          \* the arguments of create_pitch_deck and what its sources answer
    deck_units,       \* available_units of create_pitch_deck
    origin,           \* where deck_units came from: "csv", "pdf", "default"
    log,              \* the lines printed so far
    pdf_consulted,    \* process_developer_pdf was called
    header_y10,       \* header_y, in tenths of a point
    table_rows,       \* table_rows, the rows of the outer rectangle
    separators,       \* the y of the horizontal lines between rows, in tenths
    rows_drawn,       \* the data rows drawn: unit, row_top, row_bottom
    row_i,            \* i of the loop over the data rows
    gpc,              \* position of each generation in process_header_image
    image,            \* the header image of each generation, 0 if the file is missing
    temp_file,        \* content of temp_header.jpg, 0 if the file does not exist
    image_drawn       \* the image each generation put on its page, 0 if none

csvvars == <<csv_exists, fieldnames, rows, pc, row_idx, available_units, result, raised>>
layoutvars == <<lpc, page_width, table_width, nominal, col_widths, cols2, current_pos2>>
centervars == <<cpc, cell_x2, cell_width, text_width2, y_top10, y_bottom10, centered_x4, centered_y20>>
deckvars == <<dpc, request, deck_units, origin, log, pdf_consulted, header_y10, table_rows,
              separators, rows_drawn, row_i>>
headervars == <<gpc, image, temp_file, image_drawn>>
vars == <<csv_exists, fieldnames, rows, pc, row_idx, available_units, result, raised,
          lpc, page_width, table_width, nominal, col_widths, cols2, current_pos2,
          cpc, cell_x2, cell_width, text_width2, y_top10, y_bottom10, centered_x4, centered_y20,
          dpc, request, deck_units, origin, log, pdf_consulted, header_y10, table_rows,
          separators, rows_drawn, row_i, gpc, image, temp_file, image_drawn>>

----------------------------------------------------------------------------
(* Bounds *)

MaxRows == 2
MaxCols == 3
MaxNominal == 4
MaxTable == 6
MaxCellWidth == 4
MaxTextWidth2 == 6
MaxUnits == 8

----------------------------------------------------------------------------
(* Characters and text *)

None == <<"None_">>

AsciiDigits == {"0", "1", "2", "3", "4", "5", "6", "7", "8", "9"}

\* str.isdigit(): true of the ASCII digits, of other decimal digits and of
\* superscript digits
IsDigit(c) == c \in AsciiDigits \cup {"SUP2", "AR3"}

\* the digits float() accepts: Unicode decimal digits, not superscripts
IsDecimal(c) == c \in AsciiDigits \cup {"AR3"}

DecimalValue(c) ==
    CASE c = "0" -> 0 [] c = "1" -> 1 [] c = "2" -> 2 [] c = "3" -> 3
      [] c = "4" -> 4 [] c = "5" -> 5 [] c = "6" -> 6 [] c = "7" -> 7
      [] c = "8" -> 8 [] c = "9" -> 9 [] c = "AR3" -> 3

DigitChar(k) == <<"0", "1", "2", "3", "4", "5", "6", "7", "8", "9">>[k + 1]

RECURSIVE Strip(_)
\* str.strip(): drops leading and trailing whitespace
Strip(s) ==
    IF s = <<>> THEN <<>>
    ELSE IF Head(s) = " " THEN Strip(Tail(s))
    ELSE IF s[Len(s)] = " " THEN Strip(SubSeq(s, 1, Len(s) - 1))
    ELSE s

\* ''.join(c for c in s if c.isdigit() or c == '.')
KeepNumeric(s) == SelectSeq(s, LAMBDA c : IsDigit(c) \/ c = ".")

----------------------------------------------------------------------------
(* float() on a text made of digit characters and dots *)

DotCount(s) == Len(SelectSeq(s, LAMBDA c : c = "."))
DigitCount(s) == Len(SelectSeq(s, LAMBDA c : c # "."))

\* float(s) does not raise ValueError
FloatOk(s) ==
    /\ DotCount(s) <= 1
    /\ DigitCount(s) >= 1
    /\ \A i \in 1..Len(s) : s[i] = "." \/ IsDecimal(s[i])

RECURSIVE DigitsValue(_)
DigitsValue(s) ==
    IF s = <<>> THEN 0
    ELSE 10 * DigitsValue(SubSeq(s, 1, Len(s) - 1)) + DecimalValue(s[Len(s)])

RECURSIVE Pow10(_)
Pow10(k) == IF k = 0 THEN 1 ELSE 10 * Pow10(k - 1)

DotPos(s) == CHOOSE i \in 1..Len(s) : s[i] = "."

\* float(s), for s with FloatOk(s)
FloatOf(s) ==
    <<DigitsValue(SelectSeq(s, LAMBDA c : c # ".")), Pow10(IF DotCount(s) = 0 THEN 0 ELSE Len(s) - DotPos(s))>>

Zero == <<0, 1>>
IsPos(v) == v[1] > 0
RatAdd(a, b) == <<a[1] * b[2] + b[1] * a[2], a[2] * b[2]>>
RatDiv(a, b) == <<a[1] * b[2], a[2] * b[1]>>
RatScale(a, k) == <<a[1] * k, a[2]>>

----------------------------------------------------------------------------
(* Display formatting *)

\* round to the nearest integer, ties to even, as the 'f' presentation does
RoundHalfEven(v) ==
    LET q == v[1] \div v[2]
        r == v[1] % v[2]
    IN  IF 2 * r < v[2] THEN q
        ELSE IF 2 * r > v[2] THEN q + 1
        ELSE IF q % 2 = 0 THEN q ELSE q + 1

RECURSIVE NatText(_)
NatText(n) == IF n < 10 THEN <<DigitChar(n)>>
              ELSE Append(NatText(n \div 10), DigitChar(n % 10))

RECURSIVE Grouped(_)
\* the ',' option: a comma before every group of three digits
Grouped(s) == IF Len(s) <= 3 THEN s
              ELSE Grouped(SubSeq(s, 1, Len(s) - 3)) \o <<",">> \o SubSeq(s, Len(s) - 2, Len(s))

\* f"{v:,.0f}"
FormatMoney(v) == Grouped(NatText(RoundHalfEven(v)))

\* f"{v:.1f}%"
FormatRoi(v) ==
    LET t == RoundHalfEven(RatScale(v, 10))
    IN  NatText(t \div 10) \o <<".", DigitChar(t % 10), "%">>

----------------------------------------------------------------------------
(* One row of the file: extract_units_from_csv, body of the loop *)

Range(s) == {s[i] : i \in 1..Len(s)}

IndexOf(s, x) == CHOOSE i \in 1..Len(s) : s[i] = x

\* row.get(key, default) on the dict csv.DictReader builds from a data line:
\* a column the header lacks gives the default, a column the line is too
\* short for gives None (restval)
RowGet(header, cells, key, default) ==
    IF key \notin Range(header) THEN default
    ELSE IF IndexOf(header, key) <= Len(cells) THEN cells[IndexOf(header, key)]
    ELSE None

\* bedroom_count
BedroomCount(typology) ==
    IF typology # None /\ typology # <<>> /\ IsDigit(typology[1])
    THEN <<typology[1]>> ELSE <<>>

\* vat_value, transfer_fee_value: 0 for an empty text or a ValueError
TaxNumber(text) ==
    IF text # <<>> /\ FloatOk(KeepNumeric(text)) THEN FloatOf(KeepNumeric(text)) ELSE Zero

\* a tax resolver that lets the larger amount win
ResolveTaxByMagnitude(vat_str, vat_value, transfer_fee_str, transfer_fee_value) ==
    IF IsPos(vat_value) /\ vat_value[1] * transfer_fee_value[2] >= transfer_fee_value[1] * vat_value[2]
    THEN [tax_type |-> "VAT", tax_value |-> vat_str, tax_amount |-> vat_value]
    ELSE IF IsPos(transfer_fee_value)
    THEN [tax_type |-> "Transfer Fee", tax_value |-> transfer_fee_str, tax_amount |-> transfer_fee_value]
    ELSE [tax_type |-> "", tax_value |-> <<>>, tax_amount |-> Zero]

\* tax_type, tax_value, tax_amount
ResolveTax(vat_str, vat_value, transfer_fee_str, transfer_fee_value) ==
    IF IsPos(vat_value)
    THEN [tax_type |-> "VAT", tax_value |-> vat_str, tax_amount |-> vat_value]
    ELSE IF IsPos(transfer_fee_value)
    THEN [tax_type |-> "Transfer Fee", tax_value |-> transfer_fee_str, tax_amount |-> transfer_fee_value]
    ELSE [tax_type |-> "", tax_value |-> <<>>, tax_amount |-> Zero]

\* the except branch of the derived values
DerivedFallback == [exc |-> "none", price_per_m2 |-> Zero, total_cost |-> Zero, roi |-> Zero]

DerivedTypeError == [exc |-> "TypeError", price_per_m2 |-> Zero, total_cost |-> Zero, roi |-> Zero]

\* the try block of the derived values, statement by statement: a ValueError
\* leaves the three values at 0, iterating over None is a TypeError the
\* block does not catch
DeriveValues(asking_price_str, total_covered_str, rental_rate, tax_amount) ==
    IF asking_price_str = None THEN DerivedTypeError
    ELSE IF ~FloatOk(KeepNumeric(asking_price_str)) THEN DerivedFallback
    ELSE IF total_covered_str = None THEN DerivedTypeError
    ELSE IF ~FloatOk(KeepNumeric(total_covered_str)) THEN DerivedFallback
    ELSE LET asking_price == FloatOf(KeepNumeric(asking_price_str))
             total_covered == FloatOf(KeepNumeric(total_covered_str))
             price_per_m2 == IF IsPos(total_covered) THEN RatDiv(asking_price, total_covered) ELSE Zero
             total_cost == RatAdd(asking_price, tax_amount)
         IN  IF rental_rate # None /\ rental_rate # <<>>
             THEN IF ~FloatOk(KeepNumeric(rental_rate)) THEN DerivedFallback
                  ELSE [exc |-> "none", price_per_m2 |-> price_per_m2, total_cost |-> total_cost,
                        roi |-> IF IsPos(asking_price)
                                THEN RatScale(RatDiv(RatScale(FloatOf(KeepNumeric(rental_rate)), 12),
                                                     asking_price), 100)
                                ELSE Zero]
             ELSE [exc |-> "none", price_per_m2 |-> price_per_m2, total_cost |-> total_cost,
                   roi |-> Zero]

\* rendering of a derived value in the unit dict
ShowMoney(v) == IF IsPos(v) THEN FormatMoney(v) ELSE <<>>
ShowRoi(v) == IF IsPos(v) THEN FormatRoi(v) ELSE <<>>

NoUnit == [unit_id |-> <<>>, floor |-> <<>>, bedrooms |-> <<>>, internal_area |-> <<>>,
           total_covered |-> <<>>, asking_price |-> <<>>, tax_type |-> "", tax_value |-> <<>>,
           total_cost |-> <<>>, price_per_m2 |-> <<>>, rental_rate |-> <<>>, roi |-> <<>>]

\* the unit dict of one row, or the exception the loop body lets through
UnitOfRow(header, cells) ==
    LET vat_raw == RowGet(header, cells, "VAT", <<>>)
        fee_raw == RowGet(header, cells, "Transfer Fee", <<>>)
    IN  IF vat_raw = None \/ fee_raw = None
        THEN [exc |-> "AttributeError", unit |-> NoUnit]
        ELSE
        LET vat_str == Strip(vat_raw)
            transfer_fee_str == Strip(fee_raw)
            tax == ResolveTax(vat_str, TaxNumber(vat_str), transfer_fee_str, TaxNumber(transfer_fee_str))
            rental_rate == RowGet(header, cells, "Rental Rate", <<>>)
            d == DeriveValues(RowGet(header, cells, "Asking Price", <<"0">>),
                              RowGet(header, cells, "Total Covered Area", <<"0">>),
                              rental_rate, tax.tax_amount)
        IN  [exc |-> d.exc,
             unit |-> [unit_id |-> RowGet(header, cells, "Unit ID", <<>>),
                       floor |-> RowGet(header, cells, "Floor", <<>>),
                       bedrooms |-> BedroomCount(RowGet(header, cells, "Typology", <<>>)),
                       internal_area |-> RowGet(header, cells, "Internal Area", <<>>),
                       total_covered |-> RowGet(header, cells, "Total Covered Area", <<>>),
                       asking_price |-> RowGet(header, cells, "Asking Price", <<>>),
                       tax_type |-> tax.tax_type,
                       tax_value |-> tax.tax_value,
                       total_cost |-> ShowMoney(d.total_cost),
                       price_per_m2 |-> ShowMoney(d.price_per_m2),
                       rental_rate |-> rental_rate,
                       roi |-> ShowRoi(d.roi)]]

----------------------------------------------------------------------------
(* The files the extraction is run on *)

FullHeader == <<"Unit ID", "Typology", "Total Covered Area", "Asking Price", "VAT",
                "Transfer Fee", "Rental Rate">>

\* a file that has no asking price column
NoPriceHeader == <<"Unit ID", "Typology", "Total Covered Area", "VAT", "Transfer Fee",
                   "Rental Rate">>

Headers == {FullHeader, NoPriceHeader}

Price3000 == <<"EUR", "3", ",", "0", "0", "0">>
NotANumber == <<"N", "/", "A">>
Vat1p5 == <<"1", ".", "5", "%">>
Fee9 == <<"EUR", "9">>
Typology2 == <<"2", " ", "b">>

FieldValues(column) ==
    CASE column = "Unit ID" -> {<<"A">>}
      [] column = "Typology" -> {Typology2}
      [] column = "Total Covered Area" -> {<<>>, <<"0">>, <<"6">>, <<"6", "m", "SUP2">>}
      [] column = "Asking Price" -> {<<>>, <<"0">>, Price3000, NotANumber, <<"AR3">>}
      [] column = "VAT" -> {<<>>, Vat1p5, <<" ", "0">>, <<"1", ".", "5", ".">>}
      [] column = "Transfer Fee" -> {<<>>, Fee9}
      [] column = "Rental Rate" -> {<<>>, NotANumber, <<"1">>, <<"0">>}

RECURSIVE LinesOf(_, _)
\* the data lines that fill the first k columns of the header
LinesOf(header, k) ==
    IF k = 0 THEN {<<>>}
    ELSE {Append(p, v) : p \in LinesOf(header, k - 1), v \in FieldValues(header[k])}

\* complete lines and lines cut short after any column (csv skips empty lines)
RowsOf(header) == UNION {LinesOf(header, k) : k \in 1..Len(header)}

\* rows for the files of several lines: a complete row, a row with an empty
\* asking price, a row with asking price 0, a line cut short
SmallRows ==
    { <<<<"A">>, Typology2, <<"6">>, Price3000, Vat1p5, Fee9, <<"1">>>>,
      <<<<"B">>, Typology2, <<"6">>, <<>>, <<>>, <<>>, <<"1">>>>,
      <<<<"C">>, Typology2, <<"6">>, <<"0">>, <<>>, <<>>, <<>>>>,
      <<<<"D">>, Typology2, <<"6">>>> }

\* typology texts: "10 b", "b2", empty, " 2", "-1", a superscript two, an
\* Arabic-Indic three
TypologyValues ==
    { <<"1", "0", " ", "b">>, <<"b", "2">>, <<>>, <<" ", "2">>, <<"-", "1">>,
      <<"SUP2">>, <<"AR3", " ", "b">> }

\* complete rows that differ in their typology only
TypologyRows == {<<<<"A">>, t, <<"6">>, Price3000, <<>>, <<>>, <<>>>> : t \in TypologyValues}

RECURSIVE Batches(_)
Batches(n) ==
    IF n = 0 THEN {<<>>}
    ELSE Batches(n - 1) \cup {Append(b, r) : b \in {x \in Batches(n - 1) : Len(x) = n - 1}, r \in SmallRows}

CsvFiles ==
    {[exists |-> FALSE, header |-> <<>>, lines |-> <<>>],
     [exists |-> TRUE, header |-> <<>>, lines |-> <<>>]}
    \cup UNION {{[exists |-> TRUE, header |-> h, lines |-> <<r>>] : r \in RowsOf(h)} : h \in Headers}
    \cup {[exists |-> TRUE, header |-> FullHeader, lines |-> b] : b \in Batches(MaxRows)}
    \cup {[exists |-> TRUE, header |-> FullHeader, lines |-> <<r>>] : r \in TypologyRows}

----------------------------------------------------------------------------
(* extract_units_from_csv *)

Generations == {1, 2}

NoRequest == [csv_given |-> FALSE, csv_file |-> FALSE, csv_result |-> 0,
              pdf_given |-> FALSE, pdf_file |-> FALSE, pdf_result |-> 0, desc_lines |-> 0]

DeckIdle ==
    /\ dpc = "idle"
    /\ request = NoRequest
    /\ deck_units = <<>>
    /\ origin = ""
    /\ log = <<>>
    /\ pdf_consulted = FALSE
    /\ header_y10 = 0
    /\ table_rows = 0
    /\ separators = <<>>
    /\ rows_drawn = <<>>
    /\ row_i = 0

HeaderIdle ==
    /\ gpc = [g \in Generations |-> "idle"]
    /\ image = [g \in Generations |-> 0]
    /\ temp_file = 0
    /\ image_drawn = [g \in Generations |-> 0]

CenterIdle ==
    /\ cpc = "idle"
    /\ cell_x2 = 0
    /\ cell_width = 0
    /\ text_width2 = 0
    /\ y_top10 = 0
    /\ y_bottom10 = 0
    /\ centered_x4 = 0
    /\ centered_y20 = 0

LayoutIdle ==
    /\ lpc = "idle"
    /\ page_width = 0
    /\ table_width = 0
    /\ nominal = <<>>
    /\ col_widths = <<>>
    /\ cols2 = <<>>
    /\ current_pos2 = 0

InitCsv ==
    /\ \E f \in CsvFiles :
          /\ csv_exists = f.exists
          /\ fieldnames = f.header
          /\ rows = f.lines
    /\ pc = "start"
    /\ row_idx = 0
    /\ available_units = <<>>
    /\ result = <<>>
    /\ raised = "none"
    /\ LayoutIdle
    /\ CenterIdle
    /\ DeckIdle
    /\ HeaderIdle

\* the existence check, opening the file and reading the header
OpenCsv ==
    /\ pc = "start"
    /\ IF ~csv_exists
       THEN /\ raised' = "FileNotFoundError"
            /\ pc' = "done"
            /\ UNCHANGED result
       ELSE IF fieldnames = <<>>
       THEN \* ValueError, caught by the outer except: return []
            /\ result' = <<>>
            /\ pc' = "done"
            /\ UNCHANGED raised
       ELSE /\ pc' = "loop"
            /\ UNCHANGED <<result, raised>>
    /\ UNCHANGED <<csv_exists, fieldnames, rows, row_idx, available_units>>
    /\ UNCHANGED <<layoutvars, centervars, deckvars, headervars>>

\* one iteration of "for row in reader"
ProcessRow ==
    /\ pc = "loop"
    /\ row_idx < Len(rows)
    /\ LET out == UnitOfRow(fieldnames, rows[row_idx + 1])
       IN  IF out.exc # "none"
           THEN \* caught by the outer except: return []
                /\ result' = <<>>
                /\ pc' = "done"
                /\ UNCHANGED <<row_idx, available_units>>
           ELSE /\ available_units' = Append(available_units, out.unit)
                /\ row_idx' = row_idx + 1
                /\ UNCHANGED <<result, pc>>
    /\ UNCHANGED <<csv_exists, fieldnames, rows, raised>>
    /\ UNCHANGED <<layoutvars, centervars, deckvars, headervars>>

\* return available_units
ReturnUnits ==
    /\ pc = "loop"
    /\ row_idx = Len(rows)
    /\ result' = available_units
    /\ pc' = "done"
    /\ UNCHANGED <<csv_exists, fieldnames, rows, row_idx, available_units, raised>>
    /\ UNCHANGED <<layoutvars, centervars, deckvars, headervars>>

NextCsv == OpenCsv \/ ProcessRow \/ ReturnUnits

SpecCsv == InitCsv /\ [][NextCsv]_vars

----------------------------------------------------------------------------
(* Properties of the extraction *)

\* the text of a column of the i-th data line, as row.get(key, default) gives it
CellOf(i, key, default) == RowGet(fieldnames, rows[i], key, default)

\* the text parses as a number after the code's filtering
Parses(text) == text # None /\ FloatOk(KeepNumeric(text))

\* the text parses as a number and its digits are all ASCII digits
PlainNumber(text) ==
    /\ Parses(text)
    /\ \A k \in 1..Len(text) : IsDigit(text[k]) => text[k] \in AsciiDigits

\* the tax amount the row's two tax fields resolve to
TaxAmountOf(i) ==
    LET vat == TaxNumber(Strip(CellOf(i, "VAT", <<>>)))
        fee == TaxNumber(Strip(CellOf(i, "Transfer Fee", <<>>)))
    IN  IF IsPos(vat) THEN vat ELSE IF IsPos(fee) THEN fee ELSE Zero

\* C1: once the extraction of a readable file has returned, the result has
\* exactly one record per data line, in the order of the lines
C1_OneRecordPerRow ==
    (pc = "done" /\ csv_exists /\ fieldnames # <<>>) =>
        /\ Len(result) = Len(rows)
        /\ \A i \in 1..Len(result) : result[i].unit_id = CellOf(i, "Unit ID", <<>>)

\* C2: every record carries exactly one of VAT, Transfer Fee, none, chosen by
\* fixed priority: VAT when the VAT field normalizes above 0, else Transfer
\* Fee when the fee normalizes above 0, else nothing; the text is the chosen
\* field's and the amount added to the asking price is the chosen amount
C2_TaxPriority ==
    \A i \in 1..Len(available_units) :
        LET u == available_units[i]
            vat_str == Strip(CellOf(i, "VAT", <<>>))
            fee_str == Strip(CellOf(i, "Transfer Fee", <<>>))
            vat == TaxNumber(vat_str)
            fee == TaxNumber(fee_str)
            asking == CellOf(i, "Asking Price", <<"0">>)
            area == CellOf(i, "Total Covered Area", <<"0">>)
            rental == CellOf(i, "Rental Rate", <<>>)
            computed == Parses(asking) /\ Parses(area) /\ (rental \in {None, <<>>} \/ Parses(rental))
            price == FloatOf(KeepNumeric(asking))
        IN  /\ IsPos(vat) =>
                /\ u.tax_type = "VAT"
                /\ u.tax_value = vat_str
                /\ computed => u.total_cost = FormatMoney(RatAdd(price, vat))
            /\ (~IsPos(vat) /\ IsPos(fee)) =>
                /\ u.tax_type = "Transfer Fee"
                /\ u.tax_value = fee_str
                /\ computed => u.total_cost = FormatMoney(RatAdd(price, fee))
            /\ (~IsPos(vat) /\ ~IsPos(fee)) =>
                /\ u.tax_type = ""
                /\ u.tax_value = <<>>
                /\ (computed /\ IsPos(price)) => u.total_cost = FormatMoney(price)

\* a record that shows VAT although the transfer fee is the larger amount
C2_Witness ==
    \E i \in 1..Len(available_units) :
        /\ available_units[i].tax_type = "VAT"
        /\ CellOf(i, "VAT", <<>>) = Vat1p5
        /\ CellOf(i, "Transfer Fee", <<>>) = Fee9
        /\ available_units[i].total_cost = <<"3", ",", "0", "0", "2">>

\* C3: for a row whose asking price normalizes (to a positive amount), the
\* total cost is rendered whatever the rental rate and the total area are,
\* and the price per m2 is rendered when the area is positive whatever the
\* rental rate is
C3_IndependentMetrics ==
    \A i \in 1..Len(available_units) :
        LET u == available_units[i]
            asking == CellOf(i, "Asking Price", <<"0">>)
            area == CellOf(i, "Total Covered Area", <<"0">>)
        IN  (PlainNumber(asking) /\ IsPos(FloatOf(KeepNumeric(asking)))) =>
                /\ u.total_cost # <<>>
                /\ (PlainNumber(area) /\ IsPos(FloatOf(KeepNumeric(area)))) => u.price_per_m2 # <<>>

\* C4: a row whose asking price is empty, missing or without parseable
\* digits has an empty total cost, price per m2 and roi
C4_AskingPriceAnchor ==
    \A i \in 1..Len(available_units) :
        LET u == available_units[i]
            asking == CellOf(i, "Asking Price", <<>>)
        IN  (asking = <<>> \/ ~Parses(asking)) =>
                (u.total_cost = <<>> /\ u.price_per_m2 = <<>> /\ u.roi = <<>>)

\* C5: for a row whose asking price normalizes to a positive amount, the
\* price per m2 is asking price / total area when the area normalizes above
\* 0; when the area normalizes to 0 it is empty and the total cost is still
\* asking price + tax
C5_PricePerArea ==
    \A i \in 1..Len(available_units) :
        LET u == available_units[i]
            asking == CellOf(i, "Asking Price", <<"0">>)
            area == CellOf(i, "Total Covered Area", <<"0">>)
            price == FloatOf(KeepNumeric(asking))
            size == FloatOf(KeepNumeric(area))
        IN  (PlainNumber(asking) /\ IsPos(price) /\ PlainNumber(area)) =>
                IF IsPos(size)
                THEN u.price_per_m2 = FormatMoney(RatDiv(price, size))
                ELSE /\ u.price_per_m2 = <<>>
                     /\ u.total_cost = FormatMoney(RatAdd(price, TaxAmountOf(i)))

\* C6: the roi is (rental rate * 12 / asking price) * 100 when the rental
\* rate is present and the asking price is positive, whatever the area and
\* the tax are, and is empty when the rental rate is empty
C6_Roi ==
    \A i \in 1..Len(available_units) :
        LET u == available_units[i]
            asking == CellOf(i, "Asking Price", <<"0">>)
            rental == CellOf(i, "Rental Rate", <<>>)
            price == FloatOf(KeepNumeric(asking))
            rate == FloatOf(KeepNumeric(rental))
        IN  /\ (PlainNumber(asking) /\ IsPos(price) /\ PlainNumber(rental) /\ IsPos(rate)) =>
                u.roi = FormatRoi(RatScale(RatDiv(RatScale(rate, 12), price), 100))
            /\ rental \in {None, <<>>} => u.roi = <<>>

\* C7: a total cost that was computed (asking price, area and rental rate
\* all went through) is not rendered as the empty text, which is the
\* rendering of a value that could not be computed
C7_ZeroIsNotUnavailable ==
    \A i \in 1..Len(available_units) :
        LET asking == CellOf(i, "Asking Price", <<"0">>)
            area == CellOf(i, "Total Covered Area", <<"0">>)
            rental == CellOf(i, "Rental Rate", <<>>)
        IN  (/\ "Asking Price" \in Range(fieldnames)
             /\ "Total Covered Area" \in Range(fieldnames)
             /\ PlainNumber(asking) /\ PlainNumber(area)
             /\ (rental \in {None, <<>>} \/ PlainNumber(rental))) =>
                available_units[i].total_cost # <<>>

\* C8: only the ASCII digits and '.' of a field count: with the other
\* characters stripped, an asking price and an area that parse (and no
\* rental rate) give the total cost of the stripped asking price, and an
\* asking price with no ASCII digit gives an empty total cost
C8_AsciiNormalization ==
    \A i \in 1..Len(available_units) :
        LET KeepAscii(t) == SelectSeq(t, LAMBDA c : c \in AsciiDigits \/ c = ".")
            asking == CellOf(i, "Asking Price", <<>>)
            area == CellOf(i, "Total Covered Area", <<>>)
            rental == CellOf(i, "Rental Rate", <<>>)
            price == FloatOf(KeepAscii(asking))
        IN  /\ (/\ "Asking Price" \in Range(fieldnames)
                /\ "Total Covered Area" \in Range(fieldnames)
                /\ FloatOk(KeepAscii(asking)) /\ IsPos(price)
                /\ FloatOk(KeepAscii(area))
                /\ rental \in {None, <<>>}) =>
                   available_units[i].total_cost = FormatMoney(RatAdd(price, TaxAmountOf(i)))
            /\ ("Asking Price" \in Range(fieldnames) /\ ~FloatOk(KeepAscii(asking))) =>
                   available_units[i].total_cost = <<>>

\* C12: bedrooms is the first character of the typology when that is an
\* ASCII digit, and empty for every other leading character and for an
\* empty typology
C12_BedroomsAsciiDigit ==
    \A i \in 1..Len(available_units) :
        LET typology == CellOf(i, "Typology", <<>>)
        IN  IF typology # None /\ typology # <<>> /\ typology[1] \in AsciiDigits
            THEN available_units[i].bedrooms = <<typology[1]>>
            ELSE available_units[i].bedrooms = <<>>

\* C13: when the source cannot be read (the file is missing or has no
\* header) the extraction ends with an exception raised to its caller
C13_UnreadableSourceRaises ==
    (pc = "done" /\ (~csv_exists \/ fieldnames = <<>>)) => raised # "none"

----------------------------------------------------------------------------
(* create_pitch_deck: column widths and column positions of the table *)

RECURSIVE SeqSum(_)
\* sum(col_widths.values())
SeqSum(w) == IF w = <<>> THEN 0 ELSE Head(w) + SeqSum(Tail(w))

\* <<width, table_width, total_col_width>> for which the binary64 product
\* width * (table_width / total_col_width) lies just below its exact value,
\* so that int() gives one less than the exact floor: 11 * (30 / 22) is
\* 14.999999999999998.  No other triple of the inputs below is affected.
FloatShort == {<<11, 30, 22>>}

\* int(width * ratio), with ratio = table_width / total_col_width
ScaledWidth(width, table, total) ==
    (width * table) \div total - (IF <<width, table, total>> \in FloatShort THEN 1 ELSE 0)

\* a width adjustment that forgets the rounding difference
AdjustedWidthsNoRemainder(widths, table) ==
    IF SeqSum(widths) # table
    THEN [i \in 1..Len(widths) |-> ScaledWidth(widths[i], table, SeqSum(widths))]
    ELSE widths

\* col_widths after the adjustment to table_width; 'roi', the key that takes
\* the rounding difference, is the last key of the dict
AdjustedWidths(widths, table) ==
    IF SeqSum(widths) # table
    THEN LET scaled == [i \in 1..Len(widths) |-> ScaledWidth(widths[i], table, SeqSum(widths))]
             adjustment == table - SeqSum(scaled)
         IN  [scaled EXCEPT ![Len(widths)] = @ + adjustment]
    ELSE widths

\* a position update that leaves a gap of half a point after the column
AdvanceWithGap(pos2, width) == pos2 + 2 * width + 1

\* current_pos += width, in half points
Advance(pos2, width) == pos2 + 2 * width

\* the col_widths dict of the source
ShippedWidths == <<40, 30, 25, 45, 45, 50, 50, 50, 50, 50, 65>>

\* the letter page and the table width of the source
LetterWidth == 612
ShippedTableWidth == 500

RECURSIVE WidthLists(_)
\* the lists of 1..n nominal widths
WidthLists(n) ==
    IF n = 0 THEN {<<>>}
    ELSE WidthLists(n - 1)
         \cup {Append(w, x) : w \in {y \in WidthLists(n - 1) : Len(y) = n - 1}, x \in 1..MaxNominal}

PageWidths == {3, 8, LetterWidth}

Tables ==
    {[page |-> p, table |-> t, widths |-> w] :
        p \in PageWidths, t \in 1..MaxTable, w \in WidthLists(MaxCols) \ {<<>>}}
    \cup {[page |-> LetterWidth, table |-> ShippedTableWidth, widths |-> ShippedWidths],
          [page |-> LetterWidth, table |-> 30, widths |-> <<11, 11>>]}

CsvIdle ==
    /\ csv_exists = FALSE
    /\ fieldnames = <<>>
    /\ rows = <<>>
    /\ pc = "idle"
    /\ row_idx = 0
    /\ available_units = <<>>
    /\ result = <<>>
    /\ raised = "none"

InitLayout ==
    /\ \E t \in Tables :
          /\ page_width = t.page
          /\ table_width = t.table
          /\ nominal = t.widths
    /\ lpc = "table"
    /\ col_widths = nominal
    /\ cols2 = <<>>
    /\ current_pos2 = 0
    /\ CsvIdle
    /\ CenterIdle
    /\ DeckIdle
    /\ HeaderIdle

\* table set-up: left_margin, the adjustment of col_widths, current_pos
PlanWidths ==
    /\ lpc = "table"
    /\ col_widths' = AdjustedWidths(col_widths, table_width)
    /\ current_pos2' = page_width - table_width
    /\ cols2' = <<>>
    /\ lpc' = "positions"
    /\ UNCHANGED <<page_width, table_width, nominal>>
    /\ UNCHANGED <<csvvars, centervars, deckvars, headervars>>

\* one iteration of "for key, width in col_widths.items()"
PlaceColumn ==
    /\ lpc = "positions"
    /\ Len(cols2) < Len(col_widths)
    /\ cols2' = Append(cols2, current_pos2)
    /\ current_pos2' = Advance(current_pos2, col_widths[Len(cols2) + 1])
    /\ UNCHANGED <<lpc, page_width, table_width, nominal, col_widths>>
    /\ UNCHANGED <<csvvars, centervars, deckvars, headervars>>

NextLayout == PlanWidths \/ PlaceColumn

SpecLayout == InitLayout /\ [][NextLayout]_vars

----------------------------------------------------------------------------
(* Properties of the table set-up *)

\* every column has been given its position
AllPlaced == lpc = "positions" /\ Len(cols2) = Len(col_widths)

\* C9: after the adjustment the widths sum to the table width exactly and
\* none is negative
C9_WidthsSumToTable ==
    lpc = "positions" =>
        /\ Len(col_widths) = Len(nominal)
        /\ SeqSum(col_widths) = table_width
        /\ \A i \in 1..Len(col_widths) : col_widths[i] >= 0

\* widths that were scaled and whose last column took a rounding difference
C9_Witness ==
    /\ lpc = "positions"
    /\ SeqSum(nominal) # table_width
    /\ Len(nominal) >= 2
    /\ col_widths[Len(nominal)] > (nominal[Len(nominal)] * table_width) \div SeqSum(nominal)

\* C10 as stated: the offsets are the running sum of the final widths from
\* the left margin, the last column ends at left margin + table width, and
\* the offsets are strictly increasing
C10_OffsetsStrictlyIncreasing ==
    AllPlaced =>
        /\ cols2[1] = page_width - table_width
        /\ \A i \in 1..(Len(cols2) - 1) : cols2[i + 1] = cols2[i] + 2 * col_widths[i]
        /\ current_pos2 = (page_width - table_width) + 2 * table_width
        /\ \A i \in 1..(Len(cols2) - 1) : cols2[i] < cols2[i + 1]

\* C10, amended: the offsets are the running sum of the final widths from
\* the left margin, the last column ends at left margin + table width, the
\* offsets never decrease, and a column's successor starts strictly to its
\* right when the column's scaled width is above 1 or no scaling happens
C10_OffsetsPrefixSum ==
    AllPlaced =>
        /\ cols2[1] = page_width - table_width
        /\ \A i \in 1..(Len(cols2) - 1) : cols2[i + 1] = cols2[i] + 2 * col_widths[i]
        /\ current_pos2 = (page_width - table_width) + 2 * table_width
        /\ \A i \in 1..(Len(cols2) - 1) :
              /\ cols2[i] <= cols2[i + 1]
              /\ (nominal[i] * table_width > SeqSum(nominal) \/ SeqSum(nominal) = table_width)
                     => cols2[i] < cols2[i + 1]

\* all columns placed, one of them squeezed to width 0 and sharing its
\* offset with its successor, another one strictly left of its successor
C10_Witness ==
    /\ AllPlaced
    /\ \E i \in 1..(Len(cols2) - 1) : cols2[i] = cols2[i + 1]
    /\ \E i \in 1..(Len(cols2) - 1) : cols2[i] < cols2[i + 1]

----------------------------------------------------------------------------
(* create_pitch_deck: draw_centered_text *)

\* the font size of the table, in tenths of a point
FontSize10 == 70

\* a horizontal centring that keeps the text from starting left of the cell
ClampedX4(x2, width, tw2) ==
    IF tw2 > 2 * width THEN 2 * x2 ELSE 2 * x2 + (2 * width - tw2)

\* centered_x = x + (width - text_width) / 2, in quarter points
CenteredX4(x2, width, tw2) == 2 * x2 + (2 * width - tw2)

\* centered_y = y_bottom + (cell_height - text_height) / 2 + text_height * 0.3,
\* in twentieths of a point
CenteredY20(top10, bottom10) ==
    2 * bottom10 + ((top10 - bottom10) - FontSize10) + 6 * (FontSize10 \div 10)

\* left edges of cells, in half points: left of the page, on its edge, inside
CellLefts2 == {-3, 0, 5, 112}

\* top and bottom of a row of height 20, in tenths of a point
CellRows10 == {<<200, 0>>, <<3682, 3482>>}

InitCenter ==
    /\ cpc = "call"
    /\ cell_x2 \in CellLefts2
    /\ cell_width \in 0..MaxCellWidth
    /\ text_width2 \in 0..MaxTextWidth2
    /\ \E r \in CellRows10 : y_top10 = r[1] /\ y_bottom10 = r[2]
    /\ centered_x4 = 0
    /\ centered_y20 = 0
    /\ CsvIdle
    /\ LayoutIdle
    /\ DeckIdle
    /\ HeaderIdle

\* draw_centered_text, up to the c.drawString(centered_x, centered_y, text)
DrawCenteredText ==
    /\ cpc = "call"
    /\ centered_x4' = CenteredX4(cell_x2, cell_width, text_width2)
    /\ centered_y20' = CenteredY20(y_top10, y_bottom10)
    /\ cpc' = "drawn"
    /\ UNCHANGED <<cell_x2, cell_width, text_width2, y_top10, y_bottom10>>
    /\ UNCHANGED <<csvvars, layoutvars, deckvars, headervars>>

NextCenter == DrawCenteredText

SpecCenter == InitCenter /\ [][NextCenter]_vars

\* C11: the text is drawn with as much slack on its left as on its right; a
\* text no wider than the cell lies within the cell; a text wider than the
\* cell starts left of the cell and is not clamped
C11_CenteringNeverClamps ==
    cpc = "drawn" =>
        LET left4 == 2 * cell_x2
            right4 == 2 * cell_x2 + 4 * cell_width
            end4 == centered_x4 + 2 * text_width2
        IN  /\ centered_x4 - left4 = right4 - end4
            /\ text_width2 <= 2 * cell_width => (left4 <= centered_x4 /\ end4 <= right4)
            /\ text_width2 > 2 * cell_width => (centered_x4 < left4 /\ end4 > right4)

\* a text wider than its cell, drawn from a negative x
C11_Witness ==
    /\ cpc = "drawn"
    /\ text_width2 > 2 * cell_width
    /\ centered_x4 < 2 * cell_x2
    /\ centered_x4 < 0

----------------------------------------------------------------------------
(* create_pitch_deck: the source of the units and the rows of the table *)

Min(a, b) == IF a <= b THEN a ELSE b

\* the units a source returned, by source and position
UnitsFrom(src, n) == [k \in 1..n |-> [src |-> src, no |-> k]]

\* available_units of default_content(): A101, B205, C103
DefaultUnits == UnitsFrom("default", 3)

\* what the sources answer: csv_result is the number of units
\* get_units_from_csv returns, -1 if it raises; pdf_result is the number of
\* units process_developer_pdf returns, -1 if it raises, -2 if its reply
\* cannot be parsed and it returns its own placeholder units
CsvResults == (-1)..MaxUnits
PdfResults == {-2, -1, 0, 2}

\* description_lines: 0 for none given (the five default lines are used)
DescLines == {0, 1}

Requests ==
    [csv_given : BOOLEAN, csv_file : BOOLEAN, csv_result : CsvResults,
     pdf_given : BOOLEAN, pdf_file : BOOLEAN, pdf_result : PdfResults, desc_lines : DescLines]

\* a selection that tries the developer PDF before the CSV file
SelectSourcePdfFirst(rq) ==
    IF rq.pdf_given /\ rq.pdf_file
    THEN IF rq.pdf_result = -1
         THEN [units |-> DefaultUnits, origin |-> "default", log |-> <<"Error processing PDF">>,
               pdf |-> TRUE, raised |-> FALSE]
         ELSE IF rq.pdf_result = -2
         THEN [units |-> UnitsFrom("pdf_placeholder", 3), origin |-> "pdf",
               log |-> <<"Failed to parse available units data. Using placeholder data.">>,
               pdf |-> TRUE, raised |-> FALSE]
         ELSE [units |-> UnitsFrom("pdf", rq.pdf_result), origin |-> "pdf", log |-> <<>>,
               pdf |-> TRUE, raised |-> FALSE]
    ELSE IF rq.csv_given /\ rq.csv_file
    THEN IF rq.csv_result = -1
         THEN [units |-> DefaultUnits, origin |-> "default", log |-> <<"Error reading CSV file">>,
               pdf |-> FALSE, raised |-> FALSE]
         ELSE IF rq.csv_result = 0
         THEN [units |-> DefaultUnits, origin |-> "default", log |-> <<"Extracted units from CSV">>,
               pdf |-> FALSE, raised |-> FALSE]
         ELSE [units |-> UnitsFrom("csv", rq.csv_result), origin |-> "csv",
               log |-> <<"Extracted units from CSV">>, pdf |-> FALSE, raised |-> FALSE]
    ELSE [units |-> DefaultUnits, origin |-> "default", log |-> <<>>, pdf |-> FALSE, raised |-> FALSE]

\* the if / elif / else that fills available_units, with what it prints
SelectSource(rq) ==
    IF rq.csv_given /\ rq.csv_file
    THEN IF rq.csv_result = -1
         THEN [units |-> DefaultUnits, origin |-> "default", log |-> <<"Error reading CSV file">>,
               pdf |-> FALSE, raised |-> FALSE]
         ELSE IF rq.csv_result = 0
         THEN [units |-> DefaultUnits, origin |-> "default", log |-> <<"Extracted units from CSV">>,
               pdf |-> FALSE, raised |-> FALSE]
         ELSE [units |-> UnitsFrom("csv", rq.csv_result), origin |-> "csv",
               log |-> <<"Extracted units from CSV">>, pdf |-> FALSE, raised |-> FALSE]
    ELSE IF rq.pdf_given /\ rq.pdf_file
    THEN IF rq.pdf_result = -1
         THEN [units |-> DefaultUnits, origin |-> "default", log |-> <<"Error processing PDF">>,
               pdf |-> TRUE, raised |-> FALSE]
         ELSE IF rq.pdf_result = -2
         THEN [units |-> UnitsFrom("pdf_placeholder", 3), origin |-> "pdf",
               log |-> <<"Failed to parse available units data. Using placeholder data.">>,
               pdf |-> TRUE, raised |-> FALSE]
         ELSE [units |-> UnitsFrom("pdf", rq.pdf_result), origin |-> "pdf", log |-> <<>>,
               pdf |-> TRUE, raised |-> FALSE]
    ELSE [units |-> DefaultUnits, origin |-> "default", log |-> <<>>, pdf |-> FALSE, raised |-> FALSE]

\* content_start_y of initialize_pdf_layout: 792 - 792 * 0.15 - 80, in tenths
ContentStartY10 == 5932

\* line_height and row_height, in tenths
LineHeight10 == 150
RowHeight10 == 200

\* header_y = units_y - 25, units_y = section_y - 30 - len(description_lines) * line_height
HeaderY10(desc_lines) ==
    ContentStartY10 - 300 - (IF desc_lines = 0 THEN 5 ELSE desc_lines) * LineHeight10 - 250

\* an outline one row short: min(7, len(available_units) + 1)
TableRowsShort(n) == Min(7, n + 1)

\* table_rows = min(8, len(available_units) + 1)
TableRows(n) == Min(8, n + 1)

\* row_y of "for i in range(1, min(8, len(available_units) + 1))"
SeparatorYs(y10, n) == [i \in 1..(Min(8, n + 1) - 1) |-> y10 - i * RowHeight10]

\* a slice that keeps the last seven units
LastSeven(units) == SubSeq(units, Len(units) - Min(7, Len(units)) + 1, Len(units))

\* available_units[:7]
FirstSeven(units) == SubSeq(units, 1, Min(7, Len(units)))

InitDeck ==
    /\ request \in Requests
    /\ dpc = "select"
    /\ deck_units = <<>>
    /\ origin = ""
    /\ log = <<>>
    /\ pdf_consulted = FALSE
    /\ header_y10 = 0
    /\ table_rows = 0
    /\ separators = <<>>
    /\ rows_drawn = <<>>
    /\ row_i = 0
    /\ CsvIdle
    /\ LayoutIdle
    /\ CenterIdle
    /\ HeaderIdle

\* the choice of the units to render
SelectUnits ==
    /\ dpc = "select"
    /\ LET sel == SelectSource(request)
       IN  /\ deck_units' = sel.units
           /\ origin' = sel.origin
           /\ log' = log \o sel.log
           /\ pdf_consulted' = sel.pdf
           /\ dpc' = IF sel.raised THEN "raised" ELSE "outline"
    /\ UNCHANGED <<request, header_y10, table_rows, separators, rows_drawn, row_i>>
    /\ UNCHANGED <<csvvars, layoutvars, centervars, headervars>>

\* the position of the table and its outer rectangle
DrawOutline ==
    /\ dpc = "outline"
    /\ header_y10' = HeaderY10(request.desc_lines)
    /\ table_rows' = TableRows(Len(deck_units))
    /\ dpc' = "lines"
    /\ UNCHANGED <<request, deck_units, origin, log, pdf_consulted, separators, rows_drawn, row_i>>
    /\ UNCHANGED <<csvvars, layoutvars, centervars, headervars>>

\* the horizontal lines between rows
DrawSeparators ==
    /\ dpc = "lines"
    /\ separators' = SeparatorYs(header_y10, Len(deck_units))
    /\ row_i' = 0
    /\ dpc' = "rows"
    /\ UNCHANGED <<request, deck_units, origin, log, pdf_consulted, header_y10, table_rows, rows_drawn>>
    /\ UNCHANGED <<csvvars, layoutvars, centervars, headervars>>

\* one iteration of "for i, unit in enumerate(available_units[:7])"; the
\* cells of the row are drawn between row_top and row_bottom
DrawRow ==
    /\ dpc = "rows"
    /\ row_i < Len(FirstSeven(deck_units))
    /\ row_i < 7
    /\ rows_drawn' = Append(rows_drawn,
                            [unit |-> FirstSeven(deck_units)[row_i + 1],
                             row_top |-> header_y10 - (row_i + 1) * RowHeight10,
                             row_bottom |-> header_y10 - (row_i + 2) * RowHeight10])
    /\ row_i' = row_i + 1
    /\ UNCHANGED <<dpc, request, deck_units, origin, log, pdf_consulted, header_y10, table_rows, separators>>
    /\ UNCHANGED <<csvvars, layoutvars, centervars, headervars>>

\* the end of the loop (or its break) and c.save()
SavePdf ==
    /\ dpc = "rows"
    /\ (row_i >= Len(FirstSeven(deck_units)) \/ row_i >= 7)
    /\ dpc' = "saved"
    /\ log' = Append(log, "PDF created successfully")
    /\ UNCHANGED <<request, deck_units, origin, pdf_consulted, header_y10, table_rows, separators,
                   rows_drawn, row_i>>
    /\ UNCHANGED <<csvvars, layoutvars, centervars, headervars>>

NextDeck == SelectUnits \/ DrawOutline \/ DrawSeparators \/ DrawRow \/ SavePdf

SpecDeck == InitDeck /\ [][NextDeck]_vars

\* the source is usable: a path was given and the file exists
CsvUsable == request.csv_given /\ request.csv_file
PdfUsable == request.pdf_given /\ request.pdf_file

\* what create_pitch_deck prints when it knows it is substituting
SubstitutionNotices == {"Error reading CSV file", "Error processing PDF"}

\* C14: whenever the units to render are the built-in placeholder units, the
\* run has logged that it substituted them, and it has not logged that units
\* were extracted from the CSV
C14_SubstitutionExplicit ==
    (dpc # "select" /\ origin = "default") =>
        /\ \E k \in 1..Len(log) : log[k] \in SubstitutionNotices
        /\ \A k \in 1..Len(log) : log[k] # "Extracted units from CSV"

\* C17: the source of the units is a fixed chain: a usable CSV gives its
\* units if there are any and the placeholders otherwise, and the PDF is then
\* not consulted; the PDF is consulted only without a usable CSV, with the
\* placeholders if it raises; without a usable source the placeholders are
\* used; and nothing is raised
C17_SourceChain ==
    /\ dpc # "raised"
    /\ dpc # "select" =>
        /\ CsvUsable =>
            /\ ~pdf_consulted
            /\ request.csv_result > 0 => deck_units = UnitsFrom("csv", request.csv_result)
            /\ request.csv_result <= 0 => deck_units = DefaultUnits
        /\ pdf_consulted => ~CsvUsable
        /\ (~CsvUsable /\ PdfUsable) =>
            /\ pdf_consulted
            /\ request.pdf_result = -1 => deck_units = DefaultUnits
            /\ request.pdf_result >= 0 => deck_units = UnitsFrom("pdf", request.pdf_result)
        /\ (~CsvUsable /\ ~PdfUsable) => deck_units = DefaultUnits

\* a CSV whose extraction raised, with a usable PDF that was left alone
C17_Witness ==
    /\ dpc = "saved"
    /\ CsvUsable
    /\ request.csv_result = -1
    /\ PdfUsable
    /\ ~pdf_consulted
    /\ deck_units = DefaultUnits

\* C15: the data rows drawn are the first min(7, number of units) units, in
\* their order, and the deck is saved with exactly those rows
C15_TruncatesToSeven ==
    /\ Len(rows_drawn) <= Min(7, Len(deck_units))
    /\ \A k \in 1..Len(rows_drawn) : rows_drawn[k].unit = deck_units[k]
    /\ dpc = "saved" => Len(rows_drawn) = Min(7, Len(deck_units))

\* more than seven units, saved with seven rows
C15_Witness ==
    /\ dpc = "saved"
    /\ Len(deck_units) > 7
    /\ Len(rows_drawn) = 7
    /\ rows_drawn[7].unit = deck_units[7]

\* C18: the outline has min(8, units + 1) rows, every drawn data row lies
\* between the top and the bottom of the outline, and there is one separator
\* line fewer than outlined rows
C18_RowsInsideOutline ==
    dpc \in {"rows", "saved"} =>
        LET outline_bottom == header_y10 - RowHeight10 * table_rows
        IN  /\ table_rows = Min(8, Len(deck_units) + 1)
            /\ \A k \in 1..Len(rows_drawn) :
                   /\ rows_drawn[k].row_top <= header_y10
                   /\ rows_drawn[k].row_bottom >= outline_bottom
                   /\ rows_drawn[k].row_bottom < rows_drawn[k].row_top
            /\ Len(separators) = table_rows - 1

\* more than seven units: the seventh row ends on the bottom of the outline
C18_Witness ==
    /\ dpc = "saved"
    /\ Len(deck_units) > 7
    /\ Len(rows_drawn) = 7
    /\ rows_drawn[7].row_bottom = header_y10 - RowHeight10 * table_rows

----------------------------------------------------------------------------
(* process_header_image of two generations that run in the same working
   directory: both use the file "temp_header.jpg" *)

\* the picture at header_image_path: 0 for no file, else its content
Images == {0, 1, 2}

InitHeader ==
    /\ gpc = [g \in Generations |-> "check"]
    /\ image \in [Generations -> Images]
    /\ temp_file = 0
    /\ image_drawn = [g \in Generations |-> 0]
    /\ CsvIdle
    /\ LayoutIdle
    /\ CenterIdle
    /\ DeckIdle

\* if os.path.exists(header_image_path): open and crop the image
CheckImage(g) ==
    /\ gpc[g] = "check"
    /\ gpc' = [gpc EXCEPT ![g] = IF image[g] = 0 THEN "done" ELSE "save"]
    /\ UNCHANGED <<image, temp_file, image_drawn>>
    /\ UNCHANGED <<csvvars, layoutvars, centervars, deckvars>>

\* img_cropped.save("temp_header.jpg"): creates or overwrites the file
SaveTemp(g) ==
    /\ gpc[g] = "save"
    /\ temp_file' = image[g]
    /\ gpc' = [gpc EXCEPT ![g] = "draw"]
    /\ UNCHANGED <<image, image_drawn>>
    /\ UNCHANGED <<csvvars, layoutvars, centervars, deckvars>>

\* c.drawImage("temp_header.jpg", ...): reads the file as it is now, and
\* raises if it is not there
DrawTemp(g) ==
    /\ gpc[g] = "draw"
    /\ IF temp_file = 0
       THEN /\ gpc' = [gpc EXCEPT ![g] = "failed"]
            /\ UNCHANGED image_drawn
       ELSE /\ image_drawn' = [image_drawn EXCEPT ![g] = temp_file]
            /\ gpc' = [gpc EXCEPT ![g] = "remove"]
    /\ UNCHANGED <<image, temp_file>>
    /\ UNCHANGED <<csvvars, layoutvars, centervars, deckvars>>

\* os.remove("temp_header.jpg"): FileNotFoundError if it is not there
RemoveTemp(g) ==
    /\ gpc[g] = "remove"
    /\ IF temp_file = 0
       THEN /\ gpc' = [gpc EXCEPT ![g] = "failed"]
            /\ UNCHANGED temp_file
       ELSE /\ temp_file' = 0
            /\ gpc' = [gpc EXCEPT ![g] = "done"]
    /\ UNCHANGED <<image, image_drawn>>
    /\ UNCHANGED <<csvvars, layoutvars, centervars, deckvars>>

NextHeader ==
    \E g \in Generations : CheckImage(g) \/ SaveTemp(g) \/ DrawTemp(g) \/ RemoveTemp(g)

SpecHeader == InitHeader /\ [][NextHeader]_vars

\* C16: under every interleaving no generation fails in its header-image
\* step, and the header each one draws is its own image, as when it runs alone
C16_GenerationsIndependent ==
    \A g \in Generations :
        /\ gpc[g] # "failed"
        /\ gpc[g] \in {"remove", "done"} => image_drawn[g] = image[g]

====
